---- MODULE Spec2Model ----
(***************************************************************************)
(* CRYPTS (src/crypts.py): a terminal dashboard that fetches the market    *)
(* page once, limits and filters its table rows by the values of the       *)
(* global STATE dictionary, renders one labelled row per surviving record  *)
(* and then runs the toolkit's event loop, whose callbacks write STATE.    *)
(*                                                                         *)
(* Texts that the code inspects character by character (coin names, price  *)
(* cells) are tuples of one-character strings; texts it only copies are    *)
(* plain strings.  A value a widget hands to a callback is tagged with its *)
(* Python type: [t |-> "int", v |-> n] or [t |-> "str", v |-> 0] for a     *)
(* non-numeric text.  A price is the exact rational num/den of its         *)
(* decimal text.                                                           *)
(***************************************************************************)
EXTENDS Integers, Sequences, FiniteSets

VARIABLES
    State,      \* the module-level STATE dictionary (lines 31-38)
    pc,         \* where main is: a step of _define_body, the event loop, or ended
    page,       \* the rows find_all returned (line 171), kept for reference
    coins_raw,  \* the local coins_raw of _define_body
    body,       \* the data rows added to the body window (lines 207-229)
    exc,        \* the exception that left main, "none" while there is none
    modal       \* whether the quit-confirmation modal is open

vars == <<State, pc, page, coins_raw, body, exc, modal>>

----------------------------------------------------------------------------
(* Bounds of the model. *)

\* Longest table the page is taken to hold.
MaxPage == 3

\* Largest integer a numeric input field is taken to deliver.
MaxInput == 1

----------------------------------------------------------------------------
(* Values and texts. *)

IntVal(n) == [t |-> "int", v |-> n]

TextVal == [t |-> "str", v |-> 0]

IsInt(x) == x.t = "int"

\* Python truthiness of a numeric-field value: a non-zero int, or a
\* non-empty text.
Truthy(x) == IF IsInt(x) THEN x.v /= 0 ELSE TRUE

None == [some |-> FALSE, s |-> <<>>]

Str(s) == [some |-> TRUE, s |-> s]

\* Python truthiness of STATE["filter_name"]: neither None nor "".
NameSet(x) == x.some /\ x.s /= <<>>

UpperToLower ==
    [A |-> "a", B |-> "b", C |-> "c", D |-> "d", E |-> "e", F |-> "f",
     G |-> "g", H |-> "h", I |-> "i", J |-> "j", K |-> "k", L |-> "l",
     M |-> "m", N |-> "n", O |-> "o", P |-> "p", Q |-> "q", R |-> "r",
     S |-> "s", T |-> "t", U |-> "u", V |-> "v", W |-> "w", X |-> "x",
     Y |-> "y", Z |-> "z"]

LowerChar(c) == IF c \in DOMAIN UpperToLower THEN UpperToLower[c] ELSE c

\* str.lower()
Lower(s) == [i \in 1..Len(s) |-> LowerChar(s[i])]

\* sub in s, for strings
SubstringIn(sub, s) ==
    \E k \in 0..(Len(s) - Len(sub)) : SubSeq(s, k + 1, k + Len(sub)) = sub

DigitChars == <<"0", "1", "2", "3", "4", "5", "6", "7", "8", "9">>

IsDigit(c) == \E i \in 1..Len(DigitChars) : DigitChars[i] = c

DigitVal(c) == (CHOOSE i \in 1..Len(DigitChars) : DigitChars[i] = c) - 1

RECURSIVE DigitsValue(_)
DigitsValue(ds) ==
    IF ds = <<>> THEN 0
    ELSE 10 * DigitsValue(SubSeq(ds, 1, Len(ds) - 1)) + DigitVal(ds[Len(ds)])

RECURSIVE Pow10(_)
Pow10(n) == IF n = 0 THEN 1 ELSE 10 * Pow10(n - 1)

\* float(text) on a text over digits, ".", ",", "$", "+", "-": an optional
\* sign, then digits with at most one "." and at least one digit; anything
\* else (a currency symbol, a thousands separator, a bare dash) raises
\* ValueError.  The value is num/den.
ParseFloat(text) ==
    LET signed == text /= <<>> /\ text[1] \in {"+", "-"}
        digs == IF signed THEN Tail(text) ELSE text
        dots == {i \in 1..Len(digs) : digs[i] = "."}
        ok == /\ \A i \in 1..Len(digs) : IsDigit(digs[i]) \/ digs[i] = "."
              /\ Cardinality(dots) <= 1
              /\ \E i \in 1..Len(digs) : IsDigit(digs[i])
        fracLen == IF dots = {} THEN 0 ELSE Len(digs) - (CHOOSE i \in dots : TRUE)
        mag == DigitsValue(SelectSeq(digs, IsDigit))
    IN  IF ok
        THEN [ok |-> TRUE,
              num |-> IF signed /\ text[1] = "-" THEN 0 - mag ELSE mag,
              den |-> Pow10(fracLen)]
        ELSE [ok |-> FALSE, num |-> 0, den |-> 1]

----------------------------------------------------------------------------
(* The table rows the page may hold.  A row is read by cell:               *)
(*   name     contents[2].p.string      nameCell contents[2].text          *)
(*   price    contents[3].text          priceDown  its icon-Caret-down     *)
(*   h1       contents[4].text          h1Down                             *)
(*   d1       contents[5].text          d1Down                             *)
(*   cap      contents[7].p.contents[0].text                               *)

Bitcoin ==
    [name |-> <<"B", "i", "t", "c", "o", "i", "n">>, nameCell |-> "BitcoinBTC",
     price |-> <<"1", "2", "3", "4", ".", "5", "6">>, priceDown |-> TRUE,
     h1 |-> "0.10%", h1Down |-> FALSE, d1 |-> "1.20%", d1Down |-> FALSE,
     cap |-> "$1.3T"]

Ethereum ==
    [name |-> <<"E", "t", "h", "e", "r", "e", "u", "m">>, nameCell |-> "EthereumETH",
     price |-> <<"$", "1", ",", "2", "3", "4", ".", "5", "6">>, priceDown |-> FALSE,
     h1 |-> "0.30%", h1Down |-> TRUE, d1 |-> "2.00%", d1Down |-> FALSE,
     cap |-> "$400B"]

BitcoinCash ==
    [name |-> <<"B", "i", "t", "c", "o", "i", "n", " ", "C", "a", "s", "h">>,
     nameCell |-> "Bitcoin CashBCH",
     price |-> <<"1", "0", "0", "0">>, priceDown |-> FALSE,
     h1 |-> "0.05%", h1Down |-> FALSE, d1 |-> "0.70%", d1Down |-> TRUE,
     cap |-> "$9B"]

Tether ==
    [name |-> <<"T", "e", "t", "h", "e", "r">>, nameCell |-> "TetherUSDT",
     price |-> <<"0", ".", "9", "9">>, priceDown |-> FALSE,
     h1 |-> "0.00%", h1Down |-> FALSE, d1 |-> "0.01%", d1Down |-> FALSE,
     cap |-> "$110B"]

Maker ==
    [name |-> <<"M", "a", "k", "e", "r">>, nameCell |-> "MakerMKR",
     price |-> <<"2", "5", "0", "0">>, priceDown |-> TRUE,
     h1 |-> "1.10%", h1Down |-> TRUE, d1 |-> "3.00%", d1Down |-> TRUE,
     cap |-> "$2B"]

Coins == {Bitcoin, Ethereum, BitcoinCash, Tether, Maker}

\* soup.table.tbody.find_all(name="tr"): any table of at most MaxPage rows.
Pages == UNION {[1..n -> Coins] : n \in 0..MaxPage}

----------------------------------------------------------------------------
(* _define_body, lines 173-194: the filter steps.  Each yields the         *)
(* exception it raises ("none" if none) and the new coins_raw.             *)

Ok(coins) == [exc |-> "none", coins |-> coins]

Raise(e) == [exc |-> e, coins |-> <<>>]

\* coins_raw[:rows + 1]: the slice one row too long
RowLimitOffByOne(coins, rows) ==
    SubSeq(coins, 1, IF rows + 1 < Len(coins) THEN rows + 1 ELSE Len(coins))

\* coins_raw[1:rows + 1]: the slice taken as if rows were numbered from 1
RowLimitOneBased(coins, rows) ==
    SubSeq(coins, 2, IF rows + 1 < Len(coins) THEN rows + 1 ELSE Len(coins))

\* coins_raw[:rows]
RowLimit(coins, rows) ==
    SubSeq(coins, 1, IF rows < Len(coins) THEN rows ELSE Len(coins))

\* lines 174-175
LimitStep(coins, S) ==
    IF ~IsInt(S.rows) THEN Raise("TypeError")
    ELSE IF S.rows.v > 0 THEN Ok(RowLimit(coins, S.rows.v))
    ELSE Ok(coins)

\* STATE["filter_name"] in coin.contents[2].p.string: the lower() calls left out
NameMatchesCaseSensitive(sub, name) == SubstringIn(sub, name)

\* STATE["filter_name"].lower() in coin.contents[2].p.string.lower()
NameMatches(sub, name) == SubstringIn(Lower(sub), Lower(name))

\* lines 178-182
NameStep(coins, S) ==
    IF NameSet(S.filter_name)
    THEN LET Keep(coin) == NameMatches(S.filter_name.s, coin.name)
         IN  Ok(SelectSeq(coins, Keep))
    ELSE Ok(coins)

\* bound <= price: the comparison made inclusive
GtPriceInclusive(bound, price) == bound * price.den <= price.num

\* bound < price, for an int bound and a parsed price
GtPrice(bound, price) == bound * price.den < price.num

\* bound > price
LtPrice(bound, price) == bound * price.den > price.num

\* The exception a price comprehension raises, decided by the first coin
\* that cannot be compared: float() of its text raises ValueError, and a
\* text bound compared with a float raises TypeError.
PriceError(coins, bound) ==
    IF coins = <<>> THEN "none"
    ELSE IF ~IsInt(bound)
         THEN IF ParseFloat(coins[1].price).ok THEN "TypeError" ELSE "ValueError"
    ELSE IF \E i \in 1..Len(coins) : ~ParseFloat(coins[i].price).ok
         THEN "ValueError"
    ELSE "none"

\* lines 185-189
GtStep(coins, S) ==
    IF Truthy(S.filter_gtprice)
    THEN IF PriceError(coins, S.filter_gtprice) /= "none"
         THEN Raise(PriceError(coins, S.filter_gtprice))
         ELSE LET Keep(coin) == GtPrice(S.filter_gtprice.v, ParseFloat(coin.price))
              IN  Ok(SelectSeq(coins, Keep))
    ELSE Ok(coins)

\* lines 190-194
LtStep(coins, S) ==
    IF Truthy(S.filter_ltprice)
    THEN IF PriceError(coins, S.filter_ltprice) /= "none"
         THEN Raise(PriceError(coins, S.filter_ltprice))
         ELSE LET Keep(coin) == LtPrice(S.filter_ltprice.v, ParseFloat(coin.price))
              IN  Ok(SelectSeq(coins, Keep))
    ELSE Ok(coins)

\* lines 173-194 as one function of the rows and the configuration.
ApplyFilters(coins, S) ==
    LET a == LimitStep(coins, S)
        b == IF a.exc = "none" THEN NameStep(a.coins, S) ELSE a
        c == IF b.exc = "none" THEN GtStep(b.coins, S) ELSE b
    IN  IF c.exc = "none" THEN LtStep(c.coins, S) ELSE c

----------------------------------------------------------------------------
(* _define_body, lines 206-229: the labels of one table row. *)

DownGlyph == "caret-down"

UpGlyph == "caret-up"

\* ptg.Label(f"[rid](down) {text}") if the cell holds icon-Caret-down,
\* else ptg.Label(f"[griin](up) {text}")
TrendLabel(text, down) ==
    IF down THEN [tag |-> "rid", glyph |-> DownGlyph, text |-> text]
    ELSE [tag |-> "griin", glyph |-> UpGlyph, text |-> text]

PlainLabel(tag, text) == [tag |-> tag, glyph |-> "", text |-> text]

\* the 1h label testing the price cell for the caret, a copied line
RenderRowCopiedCell(coin) ==
    [name |-> PlainLabel("bold !gradient(212)", coin.nameCell),
     price |-> TrendLabel(coin.price, coin.priceDown),
     last_hour |-> TrendLabel(coin.h1, coin.priceDown),
     last_day |-> TrendLabel(coin.d1, coin.d1Down),
     market_cap |-> PlainLabel("bold", coin.cap)]

RenderRow(coin) ==
    [name |-> PlainLabel("bold !gradient(212)", coin.nameCell),
     price |-> TrendLabel(coin.price, coin.priceDown),
     last_hour |-> TrendLabel(coin.h1, coin.h1Down),
     last_day |-> TrendLabel(coin.d1, coin.d1Down),
     market_cap |-> PlainLabel("bold", coin.cap)]

RenderRows(coins) == [i \in 1..Len(coins) |-> RenderRow(coins[i])]

----------------------------------------------------------------------------
(* The program. *)

\* lines 31-38
DefaultState ==
    [refresh |-> FALSE, delay |-> IntVal(5), rows |-> IntVal(10),
     filter_name |-> None, filter_gtprice |-> IntVal(0), filter_ltprice |-> IntVal(0)]

\* main has built the header and filter windows and is about to call
\* _define_body (line 257).
Init ==
    /\ State = DefaultState
    /\ pc = "fetch"
    /\ page = <<>>
    /\ coins_raw = <<>>
    /\ body = <<>>
    /\ exc = "none"
    /\ modal = FALSE

\* An uncaught exception leaves _define_body and main: the with block's
\* exit stops the manager and re-raises.
Crash(e) ==
    /\ pc' = "crashed"
    /\ exc' = e
    /\ UNCHANGED <<State, page, coins_raw, body, modal>>

\* lines 168-171, the page fetched and its table rows found
FetchOk ==
    /\ pc = "fetch"
    /\ \E p \in Pages :
        /\ page' = p
        /\ coins_raw' = p
    /\ pc' = "limit"
    /\ UNCHANGED <<State, body, exc, modal>>

\* line 169 raising (no connection), or line 171 finding no table
FetchFail ==
    /\ pc = "fetch"
    /\ \E e \in {"RequestException", "AttributeError"} : Crash(e)

Step(from, res, to) ==
    /\ pc = from
    /\ IF res.exc = "none"
       THEN /\ coins_raw' = res.coins
            /\ pc' = to
            /\ UNCHANGED <<State, page, body, exc, modal>>
       ELSE Crash(res.exc)

ApplyRowLimit == Step("limit", LimitStep(coins_raw, State), "name")

ApplyNameFilter == Step("name", NameStep(coins_raw, State), "gtprice")

ApplyGtPrice == Step("gtprice", GtStep(coins_raw, State), "ltprice")

ApplyLtPrice == Step("ltprice", LtStep(coins_raw, State), "render")

\* lines 196-230 and 257-258: the window is filled and added, the footer is
\* added, and the with block's exit runs the event loop.
Render ==
    /\ pc = "render"
    /\ body' = RenderRows(coins_raw)
    /\ pc' = "run"
    /\ UNCHANGED <<State, page, coins_raw, exc, modal>>

NextBody ==
    \/ FetchOk
    \/ FetchFail
    \/ ApplyRowLimit
    \/ ApplyNameFilter
    \/ ApplyGtPrice
    \/ ApplyLtPrice
    \/ Render

----------------------------------------------------------------------------
(* The event loop: the callbacks of the widgets, lines 134-163 and 233-240, *)
(* and the quit modal, lines 61-77.  They run once the loop runs.           *)

\* What a numeric input field may hand to on_change.
InputVals == {IntVal(n) : n \in (0 - 1)..MaxInput} \cup {TextVal}

\* What the name field may hand to on_change.
NameInputs == {<<>>, <<"b", "i", "T">>}

Handle(field, val) ==
    /\ pc = "run"
    /\ State' = [State EXCEPT ![field] = val]
    /\ UNCHANGED <<pc, page, coins_raw, body, exc, modal>>

\* line 137: on_toggle=lambda val: STATE.update({"refresh": val})
ToggleRefresh == Handle("refresh", ~State.refresh)

\* line 140: on_change=lambda val: STATE.update({"delay": val})
ChangeDelay == \E val \in InputVals : Handle("delay", val)

\* line 143
ChangeRows == \E val \in InputVals : Handle("rows", val)

\* line 153: STATE.update({"filter_name": val or None})
ChangeFilterName ==
    \E val \in NameInputs :
        Handle("filter_name", IF val = <<>> THEN None ELSE Str(val))

\* line 157
ChangeGtPrice == \E val \in InputVals : Handle("filter_gtprice", val)

\* line 161
ChangeLtPrice == \E val \in InputVals : Handle("filter_ltprice", val)

\* line 237: ptg.Button("Refresh Now", lambda *_: None)
RefreshNow ==
    /\ pc = "run"
    /\ UNCHANGED vars

\* line 235: the Quit button opens the confirmation modal
QuitPressed ==
    /\ pc = "run"
    /\ ~modal
    /\ modal' = TRUE
    /\ UNCHANGED <<State, pc, page, coins_raw, body, exc>>

\* line 72: No closes the modal
ConfirmNo ==
    /\ pc = "run"
    /\ modal
    /\ modal' = FALSE
    /\ UNCHANGED <<State, pc, page, coins_raw, body, exc>>

\* line 63: Yes stops the manager
ConfirmYes ==
    /\ pc = "run"
    /\ modal
    /\ pc' = "stopped"
    /\ UNCHANGED <<State, page, coins_raw, body, exc, modal>>

NextUI ==
    \/ ToggleRefresh
    \/ ChangeDelay
    \/ ChangeRows
    \/ ChangeFilterName
    \/ ChangeGtPrice
    \/ ChangeLtPrice
    \/ RefreshNow
    \/ QuitPressed
    \/ ConfirmNo
    \/ ConfirmYes

Next == NextBody \/ NextUI

\* main, lines 246-258
Spec == Init /\ [][Next]_vars

\* _define_body is straight-line code: once entered it runs to its end.
\* Nothing makes the event loop act: it waits for the user.
FairSpec == Spec /\ WF_vars(NextBody)

----------------------------------------------------------------------------
(* The filter and the mapping as functions of their inputs: _define_body   *)
(* run from every configuration of the bounded sets below.  (main itself   *)
(* calls _define_body once, with the default STATE: see Init.)             *)

RowChoices == {IntVal(n) : n \in 0..MaxPage}

NameChoices == {None, Str(<<"b", "i", "T">>), Str(<<"e", "t", "h">>)}

BoundChoices == {IntVal(0), IntVal(1000), IntVal(2000)}

InitFilter ==
    /\ State \in [refresh : {FALSE}, delay : {IntVal(5)}, rows : RowChoices,
                  filter_name : NameChoices, filter_gtprice : BoundChoices,
                  filter_ltprice : BoundChoices]
    /\ pc = "fetch"
    /\ page = <<>>
    /\ coins_raw = <<>>
    /\ body = <<>>
    /\ exc = "none"
    /\ modal = FALSE

FilterSpec == InitFilter /\ [][NextBody]_vars

----------------------------------------------------------------------------
(* Claims. *)

\* A cycle is in flight while _define_body runs; the scheduler is idle
\* while the event loop waits.
CycleInFlight == pc \in {"fetch", "limit", "name", "gtprice", "ltprice", "render"}

Idle == pc = "run"

\* C9: a cycle starts on a manual trigger and, whenever auto-refresh is
\* enabled and the scheduler is idle, a new cycle eventually starts (unless
\* auto-refresh is switched off or the application is quit first).
AutoRefreshStartsCycle ==
    (Idle /\ State.refresh) ~> (CycleInFlight \/ ~State.refresh \/ pc = "stopped")

\* C7: the delay is always a positive integer, whatever was typed into the
\* delay field.
DelayStaysPositive == IsInt(State.delay) /\ State.delay.v > 0

\* C8: a failure to fetch the page or to find its table ends the cycle with
\* the scheduler idle again and the application still running.
FetchFailureNotFatal == exc \in {"RequestException", "AttributeError"} => Idle

\* C4: the price filters never raise on a price text, whatever it holds.
PriceFilterNeverRaises == exc /= "ValueError"

----------------------------------------------------------------------------
(* The filter's contract, stated from the page and the configuration.      *)
(* Under FilterSpec the configuration does not change during a run.        *)

rowLimit == State.rows.v

minPrice == State.filter_gtprice.v

maxPrice == State.filter_ltprice.v

\* The number of records the row limit lets through.
LimitedLen == IF rowLimit > 0 /\ rowLimit < Len(page) THEN rowLimit ELSE Len(page)

\* The name contains the substring, letter case ignored.
ContainsIgnoringCase(name, sub) ==
    \E k \in 0..(Len(name) - Len(sub)) :
        \A j \in 1..Len(sub) : LowerChar(name[k + j]) = LowerChar(sub[j])

\* The record satisfies every predicate that is set.
Qualifies(coin) ==
    LET price == ParseFloat(coin.price)
    IN  /\ NameSet(State.filter_name) =>
               ContainsIgnoringCase(coin.name, State.filter_name.s)
        /\ minPrice /= 0 => price.ok /\ minPrice * price.den < price.num
        /\ maxPrice /= 0 => price.ok /\ price.num < maxPrice * price.den

PastLimitStep == pc \in {"name", "gtprice", "ltprice", "render", "run"}

\* C1: after the row-limit step at most rowLimit records are left when
\* rowLimit > 0 and all of them when rowLimit = 0, and no more than
\* rowLimit rows are rendered when rowLimit > 0.
RowLimitBound ==
    /\ PastLimitStep /\ rowLimit > 0 => Len(coins_raw) <= rowLimit
    /\ pc = "name" /\ rowLimit = 0 => Len(coins_raw) = Len(page)
    /\ pc = "run" /\ rowLimit > 0 => Len(body) <= rowLimit

\* A page longer than the limit, rendered as exactly rowLimit rows.
RowLimitTruncates ==
    /\ pc = "run"
    /\ rowLimit > 0
    /\ Len(page) > rowLimit
    /\ Len(body) = rowLimit

\* C2: every record left after filtering satisfies every predicate that is
\* set, with strict price bounds, and a bound of 0 filters nothing.
SurvivorsSatisfyPredicates ==
    pc = "run" =>
        /\ \A i \in 1..Len(coins_raw) : Qualifies(coins_raw[i])
        /\ (~NameSet(State.filter_name) /\ minPrice = 0 /\ maxPrice = 0) =>
               Len(coins_raw) = LimitedLen

\* All three predicates set, some record kept, and a record whose name
\* matches and whose price equals minPrice dropped.
PriceOnBoundDropped ==
    /\ pc = "run"
    /\ NameSet(State.filter_name) /\ minPrice /= 0 /\ maxPrice /= 0
    /\ coins_raw /= <<>>
    /\ \E j \in 1..LimitedLen :
           LET price == ParseFloat(page[j].price)
           IN  /\ price.ok /\ price.num = minPrice * price.den
               /\ ContainsIgnoringCase(page[j].name, State.filter_name.s)
               /\ \A i \in 1..Len(coins_raw) : coins_raw[i] /= page[j]

\* C3: the output is the records among the first rowLimit of the page (all
\* of them when rowLimit = 0) that qualify, in the page's order, and the
\* page itself is as it was fetched.
LimitThenFilterInOrder ==
    pc = "run" =>
        coins_raw = SelectSeq(SubSeq(page, 1, LimitedLen), Qualifies)

\* Fewer than rowLimit records in the output although a record ranked
\* after rowLimit qualifies.
LaterQualifierLeftOut ==
    /\ pc = "run"
    /\ rowLimit > 0
    /\ Len(coins_raw) < rowLimit
    /\ \E j \in (rowLimit + 1)..Len(page) : Qualifies(page[j])
    /\ NameSet(State.filter_name)

\* C5: filtering the output of the filter again, with the same
\* configuration, gives that output back.
FilterIdempotent ==
    pc = "run" => ApplyFilters(coins_raw, State) = Ok(coins_raw)

\* A non-empty output that both the row limit and the predicates narrowed.
FilterNarrowed ==
    /\ pc = "run"
    /\ coins_raw /= <<>>
    /\ Len(coins_raw) < LimitedLen
    /\ LimitedLen < Len(page)

\* C6: there is one rendered row per filtered record, in order, and each of
\* price, 1h and 24h carries the down glyph and the negative colour exactly
\* if its own cell holds the down marker, else the up glyph and the
\* positive colour; name and market cap carry no glyph.
TrendShown(label, text, down) ==
    /\ label.text = text
    /\ down => label.glyph = DownGlyph /\ label.tag = "rid"
    /\ ~down => label.glyph = UpGlyph /\ label.tag = "griin"

MappingPerField ==
    pc = "run" =>
        /\ Len(body) = Len(coins_raw)
        /\ \A i \in 1..Len(body) :
               /\ TrendShown(body[i].price, coins_raw[i].price, coins_raw[i].priceDown)
               /\ TrendShown(body[i].last_hour, coins_raw[i].h1, coins_raw[i].h1Down)
               /\ TrendShown(body[i].last_day, coins_raw[i].d1, coins_raw[i].d1Down)
               /\ body[i].name.glyph = "" /\ body[i].name.text = coins_raw[i].nameCell
               /\ body[i].market_cap.glyph = "" /\ body[i].market_cap.text = coins_raw[i].cap

\* Rows whose price and change labels point in different directions.
MixedTrendsRendered ==
    /\ pc = "run"
    /\ \E i \in 1..Len(body) :
           /\ body[i].price.glyph = DownGlyph
           /\ body[i].last_hour.glyph = UpGlyph
    /\ \E i \in 1..Len(body) :
           /\ body[i].price.glyph = UpGlyph
           /\ body[i].last_day.glyph = DownGlyph

====
